---- MODULE Spec2Model ----
(***************************************************************************)
(* Customer comment cleaning pipeline (src/src/cleaning_functions.py) and  *)
(* its batch callers (src/src/main_pipeline.py, src/app/streamlit_app.py). *)
(*                                                                         *)
(* A text is a sequence of characters; a character is a one-character      *)
(* string, except that a code point outside ASCII is written "U+XXXX".     *)
(* A word of a lexicon is a string ("not"); Str turns a text into one.     *)
(***************************************************************************)
EXTENDS Naturals, Integers, Sequences, FiniteSets

VARIABLES
    stop_words,        \* module global stop_words
    negation_words,    \* module global negation_words
    pc,                \* position of the running code
    text,              \* clean_comment: parameter text
    cleaned,           \* clean_comment: local cleaned
    words_before,      \* clean_comment: local words_before
    words_after,       \* clean_comment: local words_after
    calls,             \* number of clean_comment calls the caller has made
    first,             \* the cleaned text the caller got from its first call
    Words_Removed,     \* caller: column Words_Removed of the row
    Cleaning_Success,  \* caller: column Cleaning_Success of the row
    caller,            \* the batch caller that runs: CLI pipeline or upload tool
    df,                \* batch caller: the Comment column of df
    results,           \* batch caller: results, one triple per row applied
    out                \* batch caller: the rows of the table it hands on

\* the state of a batch run
batch == <<caller, df, results, out>>

vars == <<stop_words, negation_words, pc, text, cleaned, words_before,
          words_after, calls, first, Words_Removed, Cleaning_Success,
          caller, df, results, out>>

(***************************************************************************)
(* Characters                                                              *)
(***************************************************************************)
Lower == <<"a", "b", "c", "d", "e", "f", "g", "h", "i", "j", "k", "l", "m",
           "n", "o", "p", "q", "r", "s", "t", "u", "v", "w", "x", "y", "z">>

Upper == <<"A", "B", "C", "D", "E", "F", "G", "H", "I", "J", "K", "L", "M",
           "N", "O", "P", "Q", "R", "S", "T", "U", "V", "W", "X", "Y", "Z">>

Digits == <<"0", "1", "2", "3", "4", "5", "6", "7", "8", "9">>

LowerSet == {Lower[i] : i \in DOMAIN Lower}

UpperSet == {Upper[i] : i \in DOMAIN Upper}

DigitSet == {Digits[i] : i \in DOMAIN Digits}

\* str.isspace / regex \s : the whitespace characters of the model
Whitespace == {" ", "\t", "\n"}

\* the code points the emoji package classifies as emoji
EmojiSet == {"U+1F60D", "U+1F621"}

\* a pandas missing cell (float NaN): the one value that is not a string
NaN == <<"NaN">>

\* an exception leaving a stage
Raise == <<"raise">>

IsString(v) == v # NaN /\ v # Raise

IsAlnum(c) == c \in LowerSet \cup UpperSet \cup DigitSet

\* str.lower on one character
LowerChar(c) ==
    IF c \in UpperSet THEN Lower[CHOOSE i \in DOMAIN Upper : Upper[i] = c]
    ELSE c

DigitVal(c) == (CHOOSE i \in DOMAIN Digits : Digits[i] = c) - 1

RECURSIVE Str(_)
\* the text as one string
Str(s) == IF s = <<>> THEN "" ELSE Head(s) \o Str(Tail(s))

\* s[i..] starts with p
StartsAt(s, i, p) ==
    /\ i + Len(p) - 1 <= Len(s)
    /\ \A k \in 1..Len(p) : s[i + k - 1] = p[k]

\* s[i..] starts with p, ignoring case (p is lowercase)
StartsAtNoCase(s, i, p) ==
    /\ i + Len(p) - 1 <= Len(s)
    /\ \A k \in 1..Len(p) : LowerChar(s[i + k - 1]) = p[k]

(***************************************************************************)
(* str.split() and " ".join                                                *)
(***************************************************************************)
RECURSIVE SplitFrom(_, _, _, _)
SplitFrom(s, i, cur, acc) ==
    IF i > Len(s) THEN (IF cur = <<>> THEN acc ELSE Append(acc, cur))
    ELSE IF s[i] \in Whitespace
         THEN SplitFrom(s, i + 1, <<>>,
                        IF cur = <<>> THEN acc ELSE Append(acc, cur))
         ELSE SplitFrom(s, i + 1, Append(cur, s[i]), acc)

\* text.split(): the maximal runs of non-whitespace characters
split(s) == SplitFrom(s, 1, <<>>, <<>>)

RECURSIVE join(_)
\* " ".join(words)
join(words) ==
    IF words = <<>> THEN <<>>
    ELSE IF Len(words) = 1 THEN words[1]
    ELSE words[1] \o <<" ">> \o join(Tail(words))

\* str.strip()
strip(s) ==
    IF \A i \in DOMAIN s : s[i] \in Whitespace THEN <<>>
    ELSE LET a == CHOOSE i \in DOMAIN s :
                      s[i] \notin Whitespace /\ \A j \in 1..(i - 1) : s[j] \in Whitespace
             b == CHOOSE i \in DOMAIN s :
                      s[i] \notin Whitespace /\ \A j \in (i + 1)..Len(s) : s[j] \in Whitespace
         IN  SubSeq(s, a, b)

RECURSIVE ReplaceFrom(_, _, _, _)
ReplaceFrom(s, i, old, new) ==
    IF i > Len(s) THEN <<>>
    ELSE IF StartsAt(s, i, old)
         THEN new \o ReplaceFrom(s, i + Len(old), old, new)
         ELSE <<s[i]>> \o ReplaceFrom(s, i + 1, old, new)

\* s.replace(old, new), old non-empty: every occurrence, left to right
replace(s, old, new) == ReplaceFrom(s, 1, old, new)

(***************************************************************************)
(* Lexicons (cleaning_functions.py, lines 25-41)                           *)
(***************************************************************************)
\* stopwords.words("english") of the NLTK stopwords corpus
english_stopwords ==
    {"i", "me", "my", "myself", "we", "our", "ours", "ourselves", "you",
     "you're", "you've", "you'll", "you'd", "your", "yours", "yourself",
     "yourselves", "he", "him", "his", "himself", "she", "she's", "her", "hers",
     "herself", "it", "it's", "its", "itself", "they", "them", "their", "theirs",
     "themselves", "what", "which", "who", "whom", "this", "that", "that'll",
     "these", "those", "am", "is", "are", "was", "were", "be", "been", "being",
     "have", "has", "had", "having", "do", "does", "did", "doing", "a", "an",
     "the", "and", "but", "if", "or", "because", "as", "until", "while", "of",
     "at", "by", "for", "with", "about", "against", "between", "into", "through",
     "during", "before", "after", "above", "below", "to", "from", "up", "down",
     "in", "out", "on", "off", "over", "under", "again", "further", "then",
     "once", "here", "there", "when", "where", "why", "how", "all", "any",
     "both", "each", "few", "more", "most", "other", "some", "such", "no", "nor",
     "not", "only", "own", "same", "so", "than", "too", "very", "s", "t", "can",
     "will", "just", "don", "don't", "should", "should've", "now", "d", "ll",
     "m", "o", "re", "ve", "y", "ain", "aren", "aren't", "couldn", "couldn't",
     "didn", "didn't", "doesn", "doesn't", "hadn", "hadn't", "hasn", "hasn't",
     "haven", "haven't", "isn", "isn't", "ma", "mightn", "mightn't", "mustn",
     "mustn't", "needn", "needn't", "shan", "shan't", "shouldn", "shouldn't",
     "wasn", "wasn't", "weren", "weren't", "won", "won't", "wouldn", "wouldn't"}

\* the literal of negation_words
negation_literal ==
    {"not", "no", "never", "none",
     "did", "did not",
     "was", "was not",
     "were", "were not",
     "cannot",
     "cant", "can't",
     "should not", "shouldn't",
     "could not", "couldn't",
     "would not", "wouldn't"}

(***************************************************************************)
(* expand_contractions_text                                                *)
(***************************************************************************)
\* The entries of the contractions package's table that the model carries:
\* <<contraction (lowercase), expansion>>.  "can't" expands to "can not", as
\* the comment on line 65 records.
contractions_dict ==
    << << <<"c", "a", "n", "'", "t">>, <<"c", "a", "n", " ", "n", "o", "t">> >>,
       << <<"d", "i", "d", "n", "'", "t">>, <<"d", "i", "d", " ", "n", "o", "t">> >>,
       << <<"w", "e", "r", "e", "n", "'", "t">>,
          <<"w", "e", "r", "e", " ", "n", "o", "t">> >>,
       << <<"i", "'", "m">>, <<"I", " ", "a", "m">> >> >>

\* the table entries that match s at i as a whole word, ignoring case
FixHits(s, i) ==
    {k \in DOMAIN contractions_dict :
        LET key == contractions_dict[k][1]
        IN  /\ StartsAtNoCase(s, i, key)
            /\ (i = 1 \/ ~IsAlnum(s[i - 1]))
            /\ (i + Len(key) > Len(s) \/ ~IsAlnum(s[i + Len(key)]))}

RECURSIVE FixFrom(_, _)
FixFrom(s, i) ==
    IF i > Len(s) THEN <<>>
    ELSE IF FixHits(s, i) # {}
         THEN LET k == CHOOSE k \in FixHits(s, i) : TRUE
              IN  contractions_dict[k][2]
                      \o FixFrom(s, i + Len(contractions_dict[k][1]))
         ELSE <<s[i]>> \o FixFrom(s, i + 1)

\* contractions.fix(text)
contractions_fix(s) == FixFrom(s, 1)

expand_contractions_text(s) ==
    LET expanded == contractions_fix(s)
    IN  replace(expanded, <<"c", "a", "n", " ", "n", "o", "t">>,
                <<"c", "a", "n", "n", "o", "t">>)

(***************************************************************************)
(* remove_html_tags                                                        *)
(***************************************************************************)
\* the named character references the model carries: <<name, character>>;
\* html.unescape accepts each with and without the closing ";"
html5 == << << <<"l", "t">>, "<" >>,
            << <<"g", "t">>, ">" >>,
            << <<"a", "m", "p">>, "&" >> >>

\* last index of the run of digits that starts at i
DigitRunEnd(s, i) ==
    CHOOSE e \in i..Len(s) :
        /\ \A k \in i..e : s[k] \in DigitSet
        /\ (e = Len(s) \/ s[e + 1] \notin DigitSet)

RECURSIVE NumVal(_, _, _)
\* int(s[i..e])
NumVal(s, i, e) ==
    IF e < i THEN 0 ELSE NumVal(s, i, e - 1) * 10 + DigitVal(s[e])

\* what html.unescape puts for the numeric reference &#n; : nothing for an
\* invalid code point, else chr(n); a code point outside the model's
\* characters is written U+FFFD (no letter, no whitespace, no emoji)
NumChar(n) ==
    IF n \in 1..8 THEN <<>>
    ELSE IF n = 9 THEN <<"\t">>
    ELSE IF n = 10 THEN <<"\n">>
    ELSE IF n = 32 THEN <<" ">>
    ELSE IF n = 33 THEN <<"!">>
    ELSE IF n = 38 THEN <<"&">>
    ELSE IF n = 39 THEN <<"'">>
    ELSE IF n = 60 THEN <<"<">>
    ELSE IF n = 62 THEN <<">">>
    ELSE IF n \in 48..57 THEN <<Digits[n - 47]>>
    ELSE IF n \in 65..90 THEN <<Upper[n - 64]>>
    ELSE IF n \in 97..122 THEN <<Lower[n - 96]>>
    ELSE <<"U+FFFD">>

NamedHits(s, i) == {k \in DOMAIN html5 : StartsAt(s, i + 1, html5[k][1])}

\* index after an optional ";" at j
SkipSemicolon(s, j) == IF j <= Len(s) /\ s[j] = ";" THEN j + 1 ELSE j

RECURSIVE UnescapeFrom(_, _)
UnescapeFrom(s, i) ==
    IF i > Len(s) THEN <<>>
    ELSE IF s[i] = "&" /\ i + 2 <= Len(s) /\ s[i + 1] = "#" /\ s[i + 2] \in DigitSet
         THEN LET e == DigitRunEnd(s, i + 2)
              IN  NumChar(NumVal(s, i + 2, e))
                      \o UnescapeFrom(s, SkipSemicolon(s, e + 1))
    ELSE IF s[i] = "&" /\ NamedHits(s, i) # {}
         THEN LET k == CHOOSE k \in NamedHits(s, i) : TRUE
              IN  <<html5[k][2]>>
                      \o UnescapeFrom(s, SkipSemicolon(s, i + 1 + Len(html5[k][1])))
    ELSE <<s[i]>> \o UnescapeFrom(s, i + 1)

\* html.unescape(text)
html_unescape(s) == UnescapeFrom(s, 1)

\* the regex <.*?> matches at i: s[i] is "<" and a ">" follows on the same
\* line ("." matches no newline)
TagAt(s, i) ==
    /\ s[i] = "<"
    /\ \E j \in (i + 1)..Len(s) :
          s[j] = ">" /\ \A k \in (i + 1)..(j - 1) : s[k] # "\n"

\* the end of the non-greedy match at i: the first ">" after i
TagEnd(s, i) ==
    CHOOSE j \in (i + 1)..Len(s) :
        s[j] = ">" /\ \A k \in (i + 1)..(j - 1) : s[k] # ">"

RECURSIVE SubTagsFrom(_, _)
\* re.sub(r"<.*?>", " ", s)
SubTagsFrom(s, i) ==
    IF i > Len(s) THEN <<>>
    ELSE IF TagAt(s, i) THEN <<" ">> \o SubTagsFrom(s, TagEnd(s, i) + 1)
    ELSE <<s[i]>> \o SubTagsFrom(s, i + 1)

\* remove_html_tags that blanks the delimiters and leaves the tag's name
remove_html_tags_brackets_only(s) ==
    LET u == html_unescape(s)
    IN  [i \in DOMAIN u |-> IF u[i] \in {"<", ">"} THEN " " ELSE u[i]]

\* remove_html_tags that rejects a "<" no ">" closes
remove_html_tags_strict(s) ==
    LET u == html_unescape(s)
    IN  IF \E i \in DOMAIN u : u[i] = "<" /\ ~TagAt(u, i) THEN Raise
        ELSE SubTagsFrom(u, 1)

\* remove_html_tags whose match at a "<" that no ">" follows runs to the end
\* of the text
remove_html_tags_to_end(s) ==
    LET t == SubTagsFrom(html_unescape(s), 1)
        open == {i \in DOMAIN t : t[i] = "<"}
        cut == CHOOSE i \in open : \A k \in open : i <= k
    IN  IF open = {} THEN t ELSE SubSeq(t, 1, cut - 1) \o <<" ">>

remove_html_tags(s) == SubTagsFrom(html_unescape(s), 1)

(***************************************************************************)
(* remove_emojis, normalize_repeated_characters, lowercase_text,           *)
(* remove_symbols                                                          *)
(***************************************************************************)
\* emoji.replace_emoji(text, replace=" ")
remove_emojis(s) ==
    [i \in DOMAIN s |-> IF s[i] \in EmojiSet THEN " " ELSE s[i]]

\* length of the run of s[i] that starts at i
RunLen(s, i) ==
    CHOOSE n \in 1..(Len(s) - i + 1) :
        /\ \A k \in i..(i + n - 1) : s[k] = s[i]
        /\ (i + n > Len(s) \/ s[i + n] # s[i])

RECURSIVE CollapseFrom(_, _)
\* re.sub(r"(.)\1{2,}", r"\1\1", s)
CollapseFrom(s, i) ==
    IF i > Len(s) THEN <<>>
    ELSE IF s[i] # "\n" /\ RunLen(s, i) >= 3
         THEN <<s[i], s[i]>> \o CollapseFrom(s, i + RunLen(s, i))
         ELSE <<s[i]>> \o CollapseFrom(s, i + 1)

normalize_repeated_characters(s) == CollapseFrom(s, 1)

lowercase_text(s) == [i \in DOMAIN s |-> LowerChar(s[i])]

\* remove_symbols with a character class that lets punctuation through
remove_symbols_keeping_punctuation(s) ==
    [i \in DOMAIN s |-> IF s[i] \in DigitSet THEN " " ELSE s[i]]

\* re.sub(r"[^a-zA-Z\s]", " ", text)
remove_symbols(s) ==
    [i \in DOMAIN s |->
        IF s[i] \in LowerSet \cup UpperSet \cup Whitespace THEN s[i] ELSE " "]

(***************************************************************************)
(* remove_stopwords                                                        *)
(***************************************************************************)
\* the words the NLTK tokenizer splits in two (its CONTRACTIONS2 patterns
\* without an apostrophe): <<word, first part, second part>>
TokenizerSplits ==
    << << <<"c", "a", "n", "n", "o", "t">>, <<"c", "a", "n">>, <<"n", "o", "t">> >>,
       << <<"g", "i", "m", "m", "e">>, <<"g", "i", "m">>, <<"m", "e">> >>,
       << <<"g", "o", "n", "n", "a">>, <<"g", "o", "n">>, <<"n", "a">> >>,
       << <<"g", "o", "t", "t", "a">>, <<"g", "o", "t">>, <<"t", "a">> >>,
       << <<"l", "e", "m", "m", "e">>, <<"l", "e", "m">>, <<"m", "e">> >>,
       << <<"w", "a", "n", "n", "a">>, <<"w", "a", "n">>, <<"n", "a">> >> >>

\* the tokens of one whitespace-delimited word of letters
TokensOf(w) ==
    LET hits == {k \in DOMAIN TokenizerSplits :
                    lowercase_text(w) = TokenizerSplits[k][1]}
    IN  IF hits = {} THEN <<w>>
        ELSE LET k == CHOOSE k \in hits : TRUE
                 n == Len(TokenizerSplits[k][2])
             IN  <<SubSeq(w, 1, n), SubSeq(w, n + 1, Len(w))>>

RECURSIVE TokenizeWords(_)
TokenizeWords(ws) ==
    IF ws = <<>> THEN <<>> ELSE TokensOf(Head(ws)) \o TokenizeWords(Tail(ws))

\* nltk word_tokenize(text), for a text of letters and whitespace
word_tokenize(s) == TokenizeWords(split(s))

RECURSIVE KeepWords(_)
\* the loop of remove_stopwords over words
KeepWords(words) ==
    IF words = <<>> THEN <<>>
    ELSE LET w == Head(words)
         IN  IF Str(w) \in negation_words THEN <<w>> \o KeepWords(Tail(words))
             ELSE IF Str(w) \notin stop_words THEN <<w>> \o KeepWords(Tail(words))
             ELSE KeepWords(Tail(words))

remove_stopwords(s) == join(KeepWords(word_tokenize(s)))

(***************************************************************************)
(* count_words, flag_cleaning_success                                      *)
(***************************************************************************)
\* count_words written with text.split(" ")
count_words_by_spaces(s) ==
    Cardinality({i \in DOMAIN s : s[i] = " "}) + 1

count_words(s) == Len(split(s))

\* flag_cleaning_success without the strip()
flag_cleaning_success_untrimmed(original_text, cleaned_text) ==
    IF cleaned_text # <<>> THEN "Success" ELSE "Failed"

flag_cleaning_success(original_text, cleaned_text) ==
    IF strip(cleaned_text) # <<>> THEN "Success" ELSE "Failed"

(***************************************************************************)
(* clean_comment as a function of its argument (lines 115-141)             *)
(***************************************************************************)
clean_comment(s) ==
    IF ~IsString(s)
    THEN Raise
    ELSE LET expanded == expand_contractions_text(s)
             untagged == remove_html_tags(expanded)
             plain    == remove_emojis(untagged)
             collapsed == normalize_repeated_characters(plain)
             lowered  == lowercase_text(collapsed)
             letters  == remove_symbols(lowered)
             kept     == remove_stopwords(letters)
             squeezed == join(split(kept))
         IN  <<squeezed, count_words(s), count_words(squeezed)>>

(***************************************************************************)
(* Inputs                                                                  *)
(***************************************************************************)
\* longest comment of the exhaustive part of the inputs
MaxLen == 3

\* the characters of the exhaustive part: a stopword letter, another letter,
\* a capital, a space, a symbol and the tag delimiters
Sigma == {"a", "b", "B", " ", "!", "<", ">"}

\* every text over Sigma of at most MaxLen characters
ShortTexts == UNION {[1..n -> Sigma] : n \in 0..MaxLen}

\* spec scenario 1
Scenario1 ==
    <<"I", " ", "l", "o", "v", "e", " ", "t", "h", "i", "s", "!", " ",
      "U+1F60D", " ", "<", "b", "r", ">", " ", "A", "m", "a", "z", "i",
      "n", "g">>

\* spec scenario 5
Scenario5 ==
    <<"C", "a", "n", "'", "t", " ", "b", "e", "l", "i", "e", "v", "e", " ",
      "i", "t">>

\* spec scenario 4
AllNoise ==
    <<"!", "!", "!", "?", "?", "?">>

\* one contraction that expands to two negation words
OneContraction ==
    <<"d", "i", "d", "n", "'", "t">>

\* two words, two spaces apart, that read "can not" once squeezed
ScanNot ==
    <<"s", "c", "a", "n", " ", " ", "n", "o", "t">>

\* a well-formed tag with a line break inside
MultiLineTag ==
    <<"<", "b", "\n", ">">>

\* a numeric character reference (of "B")
NumericEntity ==
    <<"&", "#", "6", "6", ";">>

\* emoji only
EmojiOnly ==
    <<"U+1F60D", "U+1F621">>

\* a tag that is never closed
Unterminated ==
    <<"a", " ", "<", "b", " ", "c">>

\* an entity-encoded tag
EncodedTag ==
    <<"&", "l", "t", ";", "b", "&", "g", "t", ";", "x", " ", "&", "a", "m",
      "p", ";", " ", "y">>

\* the word cannot, written out
PlainCannot ==
    <<"I", " ", "c", "a", "n", "n", "o", "t", " ", "w", "a", "i", "t">>

\* "<b c <i>d": an unclosed tag before a closed one
UnclosedBeforeTag ==
    <<"<", "b", " ", "c", " ", "<", "i", ">", "d">>

Scenarios ==
    {Scenario1, Scenario5, AllNoise, OneContraction, ScanNot,
     MultiLineTag, NumericEntity, EmojiOnly, Unterminated, EncodedTag,
     PlainCannot, UnclosedBeforeTag}

\* the cells of a Comment column: strings, and the missing cell
Inputs == ShortTexts \cup Scenarios \cup {NaN}

(***************************************************************************)
(* Module initialization                                                   *)
(***************************************************************************)
Init ==
    /\ stop_words = english_stopwords
    /\ negation_words = negation_literal
    /\ pc = "import"
    /\ text = <<>>
    /\ cleaned = <<>>
    /\ words_before = 0
    /\ words_after = 0
    /\ calls = 0
    /\ first = <<>>
    /\ Words_Removed = 0
    /\ Cleaning_Success = ""
    /\ caller = "none"
    /\ df = <<>>
    /\ results = <<>>
    /\ out = <<>>

\* LoadLexicons without line 41: the NLTK list is used as it is
LoadLexicons_unsubtracted ==
    /\ pc = "import"
    /\ stop_words' = stop_words
    /\ pc' = "idle"
    /\ UNCHANGED <<batch, negation_words, text, cleaned, words_before, words_after,
                   calls, first, Words_Removed, Cleaning_Success>>

\* line 41: stop_words = stop_words - negation_words
LoadLexicons ==
    /\ pc = "import"
    /\ stop_words' = stop_words \ negation_words
    /\ pc' = "idle"
    /\ UNCHANGED <<batch, negation_words, text, cleaned, words_before, words_after,
                   calls, first, Words_Removed, Cleaning_Success>>

(***************************************************************************)
(* clean_comment, one action per statement                                 *)
(***************************************************************************)
\* the caller applies clean_comment to a cell of the Comment column
Call ==
    /\ pc = "idle"
    /\ \E s \in Inputs : text' = s
    /\ calls' = 1
    /\ pc' = "count_before"
    /\ UNCHANGED <<batch, stop_words, negation_words, cleaned, words_before,
                   words_after, first, Words_Removed, Cleaning_Success>>

\* CountBefore moved after line 128: the expanded text is counted
CountBefore_after_expansion ==
    /\ pc = "count_before"
    /\ IF IsString(text)
       THEN /\ words_before' = count_words(expand_contractions_text(text))
            /\ pc' = "expand"
       ELSE pc' = "raised" /\ UNCHANGED words_before
    /\ UNCHANGED <<batch, stop_words, negation_words, text, cleaned, words_after,
                   calls, first, Words_Removed, Cleaning_Success>>

\* line 126: words_before = count_words(text); a float has no split
CountBefore ==
    /\ pc = "count_before"
    /\ IF IsString(text)
       THEN words_before' = count_words(text) /\ pc' = "expand"
       ELSE pc' = "raised" /\ UNCHANGED words_before
    /\ UNCHANGED <<batch, stop_words, negation_words, text, cleaned, words_after,
                   calls, first, Words_Removed, Cleaning_Success>>

\* cleaned = value: the stage's value is assigned, or its exception leaves
\* clean_comment
Assign(value, to) ==
    /\ IF value = Raise
       THEN pc' = "raised" /\ UNCHANGED cleaned
       ELSE cleaned' = value /\ pc' = to
    /\ UNCHANGED <<batch, stop_words, negation_words, text, words_before,
                   words_after, calls, first, Words_Removed, Cleaning_Success>>

\* line 128
ExpandContractions ==
    /\ pc = "expand"
    /\ Assign(expand_contractions_text(text), "html")

\* line 129
RemoveHtmlTags ==
    /\ pc = "html"
    /\ Assign(remove_html_tags(cleaned), "emoji")

\* line 130
RemoveEmojis ==
    /\ pc = "emoji"
    /\ Assign(remove_emojis(cleaned), "repeat")

\* NormalizeRepeated with lowercasing done first: collapse on lowered text
NormalizeRepeated_lowercased ==
    /\ pc = "repeat"
    /\ Assign(normalize_repeated_characters(lowercase_text(cleaned)), "lower")

\* line 131
NormalizeRepeated ==
    /\ pc = "repeat"
    /\ Assign(normalize_repeated_characters(cleaned), "lower")

\* line 132
Lowercase ==
    /\ pc = "lower"
    /\ Assign(lowercase_text(cleaned), "symbols")

\* line 133
RemoveSymbols ==
    /\ pc = "symbols"
    /\ Assign(remove_symbols(cleaned), "stopwords")

\* RemoveStopwords that remembers: the words a call keeps become stopwords
\* for the calls after it
RemoveStopwords_learning ==
    /\ pc = "stopwords"
    /\ cleaned' = remove_stopwords(cleaned)
    /\ stop_words' = stop_words \cup
           ({Str(word_tokenize(cleaned)[i]) : i \in DOMAIN word_tokenize(cleaned)}
                \ negation_words)
    /\ pc' = "squeeze"
    /\ UNCHANGED <<batch, negation_words, text, words_before, words_after,
                   calls, first, Words_Removed, Cleaning_Success>>

\* line 134
RemoveStopwords ==
    /\ pc = "stopwords"
    /\ Assign(remove_stopwords(cleaned), "squeeze")

\* line 137: cleaned = " ".join(cleaned.split())
SqueezeSpaces ==
    /\ pc = "squeeze"
    /\ Assign(join(split(cleaned)), "count_after")

\* line 139: words_after = count_words(cleaned)
CountAfter ==
    /\ pc = "count_after"
    /\ words_after' = count_words(cleaned)
    /\ pc' = "return"
    /\ UNCHANGED <<batch, stop_words, negation_words, text, cleaned, words_before,
                   calls, first, Words_Removed, Cleaning_Success>>

\* line 141: return cleaned, words_before, words_after
Return ==
    /\ pc = "return"
    /\ pc' = "returned"
    /\ UNCHANGED <<batch, stop_words, negation_words, text, cleaned, words_before,
                   words_after, calls, first, Words_Removed, Cleaning_Success>>

(***************************************************************************)
(* The batch caller (main_pipeline.py, process_comments_vectorized)        *)
(***************************************************************************)
\* Augment with Words_Removed clamped at zero
Augment_clamped ==
    /\ pc = "returned"
    /\ Words_Removed' = IF words_before >= words_after
                        THEN words_before - words_after ELSE 0
    /\ Cleaning_Success' = flag_cleaning_success(text, cleaned)
    /\ pc' = "row"
    /\ UNCHANGED <<batch, stop_words, negation_words, text, cleaned, words_before,
                   words_after, calls, first>>

\* lines 80-89: the derived columns of the row
Augment ==
    /\ pc = "returned"
    /\ Words_Removed' = words_before - words_after
    /\ Cleaning_Success' = flag_cleaning_success(text, cleaned)
    /\ pc' = "row"
    /\ UNCHANGED <<batch, stop_words, negation_words, text, cleaned, words_before,
                   words_after, calls, first>>

\* the cleaned comment of the row is cleaned once more
Reclean ==
    /\ pc = "row"
    /\ calls = 1
    /\ text' = cleaned
    /\ first' = cleaned
    /\ calls' = 2
    /\ pc' = "count_before"
    /\ UNCHANGED <<batch, stop_words, negation_words, cleaned, words_before,
                   words_after, Words_Removed, Cleaning_Success>>

Next ==
    \/ LoadLexicons
    \/ Call
    \/ CountBefore
    \/ ExpandContractions
    \/ RemoveHtmlTags
    \/ RemoveEmojis
    \/ NormalizeRepeated
    \/ Lowercase
    \/ RemoveSymbols
    \/ RemoveStopwords
    \/ SqueezeSpaces
    \/ CountAfter
    \/ Return
    \/ Augment
    \/ Reclean

Spec == Init /\ [][Next]_vars

(***************************************************************************)
(* The success classifier on its own: every pair of a Comment cell and a   *)
(* cleaned text                                                            *)
(***************************************************************************)
FlagOriginals == {<<>>, <<"a">>, <<"!">>, NaN}

FlagTexts == UNION {[1..n -> {"a", " ", "\t"}] : n \in 0..MaxLen}

InitFlag ==
    /\ stop_words = english_stopwords \ negation_literal
    /\ negation_words = negation_literal
    /\ pc = "flag"
    /\ text \in FlagOriginals
    /\ cleaned \in FlagTexts
    /\ words_before = 0
    /\ words_after = 0
    /\ calls = 0
    /\ first = <<>>
    /\ Words_Removed = 0
    /\ Cleaning_Success = ""
    /\ caller = "none"
    /\ df = <<>>
    /\ results = <<>>
    /\ out = <<>>

\* main_pipeline.py lines 86-89, one row
FlagRow ==
    /\ pc = "flag"
    /\ Cleaning_Success' = flag_cleaning_success(text, cleaned)
    /\ pc' = "flagged"
    /\ UNCHANGED <<batch, stop_words, negation_words, text, cleaned, words_before,
                   words_after, calls, first, Words_Removed>>

SpecFlag == InitFlag /\ [][FlagRow]_vars

(***************************************************************************)
(* The batch callers on a whole table: process_comments_vectorized         *)
(* (main_pipeline.py) and the upload handler (app/streamlit_app.py).       *)
(* pd.read_csv leaves an empty Comment cell as NaN; a table has at least   *)
(* one row.                                                                *)
(***************************************************************************)
MaxRows == 3

Cells == {NaN, Scenario5, AllNoise, OneContraction}

Tables == UNION {[1..n -> Cells] : n \in 1..MaxRows}

InitBatch ==
    /\ stop_words = english_stopwords
    /\ negation_words = negation_literal
    /\ pc = "import"
    /\ text = <<>>
    /\ cleaned = <<>>
    /\ words_before = 0
    /\ words_after = 0
    /\ calls = 0
    /\ first = <<>>
    /\ Words_Removed = 0
    /\ Cleaning_Success = ""
    /\ caller \in {"main_pipeline", "streamlit_app"}
    /\ df \in Tables
    /\ results = <<>>
    /\ out = <<>>

\* main_pipeline.py line 77, streamlit_app.py line 114: Series.apply hands
\* the next cell of the Comment column to clean_comment, as it is
ApplyRow ==
    /\ pc = "idle"
    /\ Len(results) < Len(df)
    /\ text' = df[Len(results) + 1]
    /\ calls' = calls + 1
    /\ pc' = "count_before"
    /\ UNCHANGED <<stop_words, negation_words, cleaned, words_before,
                   words_after, first, Words_Removed, Cleaning_Success,
                   caller, df, results, out>>

\* the triple clean_comment returned becomes the row's element of results
Collect ==
    /\ pc = "returned"
    /\ results' = Append(results, <<cleaned, words_before, words_after>>)
    /\ pc' = "idle"
    /\ UNCHANGED <<stop_words, negation_words, text, cleaned, words_before,
                   words_after, calls, first, Words_Removed,
                   Cleaning_Success, caller, df, out>>

\* main_pipeline.py lines 80-96: the derived columns, the flag column, the
\* rename of Comment and the column order
ProcessColumns ==
    /\ pc = "idle"
    /\ caller = "main_pipeline"
    /\ Len(results) = Len(df)
    /\ out' = [i \in 1..Len(df) |->
                 [Original_Comment |-> df[i],
                  Cleaned_Comment  |-> results[i][1],
                  Words_Before     |-> results[i][2],
                  Words_After      |-> results[i][3],
                  Words_Removed    |-> results[i][2] - results[i][3],
                  Cleaning_Success |->
                      flag_cleaning_success(df[i], results[i][1])]]
    /\ pc' = "done"
    /\ UNCHANGED <<stop_words, negation_words, text, cleaned, words_before,
                   words_after, calls, first, Words_Removed,
                   Cleaning_Success, caller, df, results>>

\* streamlit_app.py lines 117-120 and 147-148: the derived columns; the
\* table written for download has no flag column
UploadColumns ==
    /\ pc = "idle"
    /\ caller = "streamlit_app"
    /\ Len(results) = Len(df)
    /\ out' = [i \in 1..Len(df) |->
                 [Comment         |-> df[i],
                  Cleaned_Comment |-> results[i][1],
                  Words_Before    |-> results[i][2],
                  Words_After     |-> results[i][3],
                  Words_Removed   |-> results[i][2] - results[i][3]]]
    /\ pc' = "done"
    /\ UNCHANGED <<stop_words, negation_words, text, cleaned, words_before,
                   words_after, calls, first, Words_Removed,
                   Cleaning_Success, caller, df, results>>

NextBatch ==
    \/ LoadLexicons
    \/ ApplyRow
    \/ CountBefore
    \/ ExpandContractions
    \/ RemoveHtmlTags
    \/ RemoveEmojis
    \/ NormalizeRepeated
    \/ Lowercase
    \/ RemoveSymbols
    \/ RemoveStopwords
    \/ SqueezeSpaces
    \/ CountAfter
    \/ Return
    \/ Collect
    \/ ProcessColumns
    \/ UploadColumns

SpecBatch == InitBatch /\ [][NextBatch]_vars

(***************************************************************************)
(* Properties                                                              *)
(***************************************************************************)
\* the words of a text: its whitespace-delimited tokens, as strings
Words(s) == {Str(split(s)[i]) : i \in DOMAIN split(s)}

\* the number of places of s where a token starts
NumTokens(s) ==
    Cardinality({i \in DOMAIN s :
                    s[i] \notin Whitespace /\ (i = 1 \/ s[i - 1] \in Whitespace)})

\* clean_comment has returned to its caller
Returned == pc \in {"returned", "row"}

\* lowercase letters and single spaces between words, or empty
IsCleanedText(s) ==
    /\ \A i \in DOMAIN s : s[i] \in LowerSet \cup {" "}
    /\ \A i \in DOMAIN s : s[i] = " " => i > 1 /\ i < Len(s) /\ s[i + 1] # " "

\* C1: the cleaned text clean_comment returns holds only a-z and the single
\* space, no two spaces in a row, and no space at either end.
C1_AlphabetClosure == Returned => IsCleanedText(cleaned)

\* a text with a capital, an apostrophe and stopwords came back as two words
C1_Witness ==
    /\ pc = "returned" /\ calls = 1 /\ text = Scenario5
    /\ Str(cleaned) = "not believe"

\* C2: every negation term that is a word of the text entering the stopword
\* filter is a word of the filter's output, and "Can't believe it" is
\* cleaned to a text with the word "cannot".
C2_NegationPreserved ==
    /\ [][RemoveStopwords =>
            \A t \in negation_words :
                t \in Words(cleaned) => t \in Words(cleaned')]_vars
    /\ [](Returned /\ calls = 1 /\ text = Scenario5 => "cannot" \in Words(cleaned))

\* C3: cleaning the cleaned text again returns it unchanged.
C3_Idempotent == pc = "returned" /\ calls = 2 => cleaned = first

\* C4: words_before is the number of whitespace-delimited tokens of the raw
\* text, words_after that of the cleaned text returned.
C4_WordCounts ==
    Returned => /\ words_before = NumTokens(text)
                /\ words_after = NumTokens(cleaned)

\* a raw text whose tokens are separated by more than single spaces
C4_Witness ==
    /\ pc = "returned" /\ calls = 1 /\ text = ScanNot
    /\ words_before = 2 /\ words_after = 2

\* C5 as claimed: the tokens contraction expansion creates are counted in
\* words_before.
C5_ExpansionCounted ==
    Returned /\ calls = 1 =>
        words_before = NumTokens(expand_contractions_text(text))

\* C5 amended: words_before is counted on the raw text, before expansion, so
\* the tokens expansion creates are not in it; one contraction that expands
\* to two words reports words_before = 1.
C5_ExpansionNotCounted ==
    Returned /\ calls = 1 =>
        /\ NumTokens(expand_contractions_text(text)) > NumTokens(text)
              => words_before < NumTokens(expand_contractions_text(text))
        /\ text = OneContraction =>
              words_before = 1 /\ NumTokens(expand_contractions_text(text)) = 2

\* one contraction, expanded to two words, counted as one
C5_Witness ==
    /\ pc = "returned" /\ calls = 1 /\ text = OneContraction
    /\ words_before = 1 /\ cleaned = <<"d", "i", "d", " ", "n", "o", "t">>

\* C6 as claimed: scenario 1 is cleaned to "love amazing" with
\* words_before = 5 and words_after = 2.
C6_Scenario1_Five ==
    Returned /\ calls = 1 /\ text = Scenario1 =>
        Str(cleaned) = "love amazing" /\ words_before = 5 /\ words_after = 2

\* C6 amended: scenario 1 is cleaned to "love amazing" with words_before = 6
\* (its six whitespace-separated pieces) and words_after = 2.
C6_Scenario1_Six ==
    Returned /\ calls = 1 /\ text = Scenario1 =>
        Str(cleaned) = "love amazing" /\ words_before = 6 /\ words_after = 2

\* scenario 1 has been cleaned
C6_Witness == pc = "returned" /\ calls = 1 /\ text = Scenario1

\* C7: the word counts are never negative, and the row's Words_Removed is
\* words_before - words_after, unclamped (so it can be negative).
C7_CountsAndRemoved ==
    /\ words_before >= 0
    /\ words_after >= 0
    /\ pc = "row" => Words_Removed + words_after = words_before

\* a row whose Words_Removed is negative
C7_Witness == pc = "row" /\ calls = 1 /\ Words_Removed < 0

\* character i of s lies inside a well-formed tag
InTag(s, i) ==
    \E a \in 1..(i - 1), b \in (i + 1)..Len(s) :
        /\ s[a] = "<"
        /\ s[b] = ">"
        /\ \A k \in (a + 1)..(b - 1) : s[k] \notin {"<", ">"}

\* no letter outside well-formed markup
NoAlphabeticContent(s) ==
    \A i \in DOMAIN s : s[i] \in LowerSet \cup UpperSet => InTag(s, i)

\* C8: the empty text is cleaned to ("", 0, 0), every text without
\* alphabetic content is cleaned to "" with words_after = 0, and both are
\* flagged Failed.
C8_NoiseCleansToNothing ==
    pc = "row" /\ calls = 1 /\ NoAlphabeticContent(text) =>
        /\ cleaned = <<>>
        /\ words_after = 0
        /\ Cleaning_Success = "Failed"
        /\ text = <<>> => words_before = 0

\* C9: flag_cleaning_success is "Success" exactly when the cleaned text has
\* a character that is not whitespace, "Failed" otherwise, whatever the
\* original text is.
C9_SuccessFlag ==
    pc = "flagged" =>
        /\ Cleaning_Success \in {"Success", "Failed"}
        /\ Cleaning_Success = "Success"
              <=> \E i \in DOMAIN cleaned : cleaned[i] \notin Whitespace
        /\ \A o \in FlagOriginals :
              flag_cleaning_success(o, cleaned) = Cleaning_Success

\* a cleaned text of whitespace only, flagged Failed
C9_Witness ==
    pc = "flagged" /\ cleaned = <<" ", "\t">> /\ Cleaning_Success = "Failed"

\* C10: for a string, no statement of clean_comment raises, and what is
\* returned is a text and two counts.
C10_NoFailure ==
    IsString(text) =>
        /\ pc # "raised"
        /\ Returned => IsString(cleaned) /\ words_before \in Nat /\ words_after \in Nat

\* a text with an unclosed tag went through every stage
C10_Witness ==
    pc = "returned" /\ calls = 1 /\ text = Unterminated /\ words_after = 2

\* the rows of df whose Comment cell is missing
MissingRows == {i \in DOMAIN df : df[i] = NaN}

\* C11: the batch callers never call clean_comment on a value that is not a
\* string: a missing cell of the Comment column reaches it as the empty
\* string, the table is processed to completion, and the row of a missing
\* cell is cleaned to ("", 0, 0)
C11_MissingCoerced ==
    /\ pc \notin {"import", "idle", "done"} => IsString(text)
    /\ pc # "raised"
    /\ \A i \in MissingRows :
           i <= Len(results) => results[i] = <<<<>>, 0, 0>>

\* the Comment cell that row i of the output table carries
OriginalOf(row) ==
    IF "Comment" \in DOMAIN row THEN row.Comment ELSE row.Original_Comment

\* C12: each batch caller outputs one row per input row, in input order;
\* row i carries the cleaned text, words-before and words-after of
\* clean_comment(comment_i), words-removed = before - after, and a
\* Success/Failed flag that is the success classifier of its cleaned text
C12_BatchContract ==
    pc = "done" =>
        /\ Len(out) = Len(df)
        /\ \A i \in DOMAIN out :
               LET r == clean_comment(df[i]) IN
               /\ OriginalOf(out[i]) = df[i]
               /\ out[i].Cleaned_Comment = r[1]
               /\ out[i].Words_Before = r[2]
               /\ out[i].Words_After = r[3]
               /\ out[i].Words_Removed = r[2] - r[3]
               /\ "Cleaning_Success" \in DOMAIN out[i]
               /\ out[i].Cleaning_Success = flag_cleaning_success(df[i], r[1])

\* C13: every execution of clean_comment performs its steps in this order,
\* none skipped or repeated: count wordsBefore, expand contractions, strip
\* markup, strip emoji, collapse repeated characters, lowercase, strip
\* symbols, filter stopwords, squeeze whitespace, count wordsAfter; each
\* step works on the value the step before it left
C13_StageOrder ==
    [][/\ pc = "count_before" /\ IsString(text) =>
              pc' = "expand" /\ words_before' = count_words(text)
       /\ pc = "expand" =>
              pc' = "html" /\ cleaned' = expand_contractions_text(text)
       /\ pc = "html" =>
              pc' = "emoji" /\ cleaned' = remove_html_tags(cleaned)
       /\ pc = "emoji" =>
              pc' = "repeat" /\ cleaned' = remove_emojis(cleaned)
       /\ pc = "repeat" =>
              /\ pc' = "lower"
              /\ cleaned' = normalize_repeated_characters(cleaned)
       /\ pc = "lower" =>
              pc' = "symbols" /\ cleaned' = lowercase_text(cleaned)
       /\ pc = "symbols" =>
              pc' = "stopwords" /\ cleaned' = remove_symbols(cleaned)
       /\ pc = "stopwords" =>
              pc' = "squeeze" /\ cleaned' = remove_stopwords(cleaned)
       /\ pc = "squeeze" =>
              pc' = "count_after" /\ cleaned' = join(split(cleaned))
       /\ pc = "count_after" =>
              pc' = "return" /\ words_after' = count_words(cleaned)
       /\ pc = "return" => pc' = "returned" /\ cleaned' = cleaned
       /\ pc' = "expand" => pc = "count_before"
       /\ pc' = "count_before" => pc \in {"idle", "row"}
      ]_vars

\* "Bbb" comes back as "bbb": the run of three was collapsed on raw case
\* (none found), the capital was lowered afterwards
C13_Witness ==
    /\ pc = "returned"
    /\ text = <<"B", "b", "b">>
    /\ cleaned = <<"b", "b", "b">>

\* C14: once the module is initialized, and after any sequence of
\* clean_comment, remove_stopwords and flag_cleaning_success calls, the
\* stopword set and the negation set have no element in common:
\* initialization subtracted the negation set, and both sets are still what
\* initialization made them
C14_LexiconsDisjoint ==
    pc # "import" =>
        /\ stop_words \cap negation_words = {}
        /\ negation_words = negation_literal
        /\ stop_words = english_stopwords \ negation_literal

\* a row is complete (clean_comment, remove_stopwords and
\* flag_cleaning_success have run) and "not", a word of the NLTK list, is
\* a negation word and no stopword
C14_Witness ==
    /\ pc = "row"
    /\ text = Scenario5
    /\ "not" \in Words(cleaned)
    /\ "not" \in english_stopwords
    /\ "not" \in negation_words
    /\ "not" \notin stop_words

\* C15: any two calls of clean_comment on the same string, whatever calls
\* on other inputs happen before or between them, return the identical
\* triple; the triple is a function of the string and the lexicons alone,
\* and a call leaves both lexicons as initialization made them
C15_Deterministic ==
    /\ \A i, j \in DOMAIN results : df[i] = df[j] => results[i] = results[j]
    /\ \A i \in DOMAIN results : results[i] = clean_comment(df[i])
    /\ pc # "import" =>
           /\ stop_words = english_stopwords \ negation_literal
           /\ negation_words = negation_literal

\* the first and the third call had the same argument, the second another
\* one with another result
C15_Witness ==
    /\ Len(results) = 3
    /\ df[1] = df[3]
    /\ df[1] # df[2]
    /\ results[1] = results[3]
    /\ results[1] # results[2]

\* a "<" the text does not close: no ">" comes after it before the next "<"
Unclosed(u, i) ==
    /\ u[i] = "<"
    /\ LET later == {j \in (i + 1)..Len(u) : u[j] \in {"<", ">"}}
       IN  later = {} \/ u[CHOOSE j \in later : \A k \in later : j <= k] = "<"

\* a ">" comes after position i on the line of position i
GtOnLine(u, i) ==
    \E j \in (i + 1)..Len(u) :
        u[j] = ">" /\ \A k \in (i + 1)..(j - 1) : u[k] # "\n"

\* the first ">" after position i
FirstGt(u, i) ==
    CHOOSE j \in (i + 1)..Len(u) :
        u[j] = ">" /\ \A k \in (i + 1)..(j - 1) : u[k] # ">"

\* the positions from i to the end of its line
LineFrom(u, i) == {p \in i..Len(u) : \A k \in i..p : u[k] # "\n"}

RECURSIVE MatchesFrom(_, _)
\* the matches <<start, end>> of the tag pattern in u, scanned from i: the
\* leftmost first, each from a "<" to the first ">" after it on its line
MatchesFrom(u, i) ==
    IF i > Len(u) THEN {}
    ELSE IF u[i] = "<" /\ GtOnLine(u, i)
         THEN {<<i, FirstGt(u, i)>>} \cup MatchesFrom(u, FirstGt(u, i) + 1)
         ELSE MatchesFrom(u, i + 1)

\* the positions of u inside a match
Matched(u) == UNION {m[1]..m[2] : m \in MatchesFrom(u, 1)}

RECURSIVE Rebuild(_, _)
\* u from position p on, with one space for each match and every other
\* character as it is
Rebuild(u, p) ==
    IF p > Len(u) THEN <<>>
    ELSE IF \E m \in MatchesFrom(u, 1) : m[1] = p
         THEN <<" ">> \o Rebuild(u, p + 1)
         ELSE IF p \in Matched(u) THEN Rebuild(u, p + 1)
              ELSE <<u[p]>> \o Rebuild(u, p + 1)

\* the text remove_html_tags searches for tags: its argument, decoded
Decoded == html_unescape(expand_contractions_text(text))

\* C16: in remove_html_tags, a "<" with no closing ">" of its own makes the
\* match extend beyond the intended tag, so the text following the "<" is
\* removed rather than kept; every matched tag is replaced by a single
\* space and the stage never raises
C16_UnterminatedOverStrips ==
    /\ pc = "raised" => ~IsString(text)
    /\ pc = "emoji" =>
          /\ cleaned = Rebuild(Decoded, 1)
          /\ \A i \in DOMAIN Decoded :
                 Unclosed(Decoded, i) /\ i < Len(Decoded) =>
                     (i + 1) \in Matched(Decoded)

\* C16 (amended): an unclosed "<" is over-stripped only if some ">" comes
\* after it on its line: the match then runs from the "<" to the first such
\* ">" and everything between is removed; if no ">" comes after it on its
\* line, nothing matches and the "<" and the rest of its line are kept.
\* Every match is replaced by a single space and the stage never raises
C16_UnterminatedMarkup ==
    /\ pc = "raised" => ~IsString(text)
    /\ pc = "emoji" =>
          /\ cleaned = Rebuild(Decoded, 1)
          /\ \A i \in DOMAIN Decoded :
                 Unclosed(Decoded, i) =>
                     IF GtOnLine(Decoded, i)
                     THEN i..FirstGt(Decoded, i) \subseteq Matched(Decoded)
                     ELSE LineFrom(Decoded, i) \cap Matched(Decoded) = {}

\* "a <b c" leaves the stage as it entered it
C16_Witness ==
    /\ pc = "emoji"
    /\ text = Unterminated
    /\ Unclosed(Decoded, 3)
    /\ cleaned = Unterminated

\* "<b c <i>d" loses "b c" with the two tags
C16_WitnessOverStripped ==
    /\ pc = "emoji"
    /\ text = UnclosedBeforeTag
    /\ Unclosed(Decoded, 1)
    /\ cleaned = <<" ", "d">>

\* a token the filter rule keeps: a negation word, or no stopword
IsKept(w) == Str(w) \in negation_words \/ Str(w) \notin stop_words

\* C17: the output of remove_stopwords is the input's token sequence with
\* exactly those tokens deleted that are stopwords and not negation words;
\* every other token is kept, in its original order and multiplicity, and
\* the surviving tokens are joined by single spaces
C17_FilterRule ==
    [][pc = "stopwords" =>
           cleaned' = join(SelectSeq(split(cleaned), IsKept))]_vars
====
